---------------------------- MODULE Spec2Model ----------------------------
(***************************************************************************)
(* A model of my_notes_service: the frontmatter rewrite of                 *)
(* app/utils/file_writing.py and the bounded-concurrency walker of         *)
(* app/utils/utils.py.                                                     *)
(*                                                                         *)
(* Text is a sequence of one-character strings.  LF, CR and BOM stand for  *)
(* "\n", "\r" and U+FEFF.  Python's 0-based half-open slice t[a:b] is      *)
(* Slice(t, a, b).                                                         *)
(***************************************************************************)
EXTENDS Integers, Sequences, FiniteSets, TLC

LF == "\n"
CR == "\r"
BOM == "BOM"

MARKER == <<"-", "-", "-">>

(***************************************************************************)
(* Bounds of the model.                                                    *)
(***************************************************************************)
MaxBlockLines == 2
MaxFiles == 3
MaxLimit == 2
MaxSuspend == 1
MaxWalks == 2

(***************************************************************************)
(* str operations of Python used by the code.                              *)
(***************************************************************************)
Min(a, b) == IF a < b THEN a ELSE b

Slice(t, a, b) == SubSeq(t, a + 1, Min(b, Len(t)))

From(t, a) == SubSeq(t, a + 1, Len(t))

StartsWith(t, p) == Len(p) <= Len(t) /\ SubSeq(t, 1, Len(p)) = p

EndsWith(t, p) == Len(p) <= Len(t) /\ SubSeq(t, Len(t) - Len(p) + 1, Len(t)) = p

\* the offset of the first occurrence of sep in t at or after i, or -1 (str.find)
RECURSIVE FindFrom(_, _, _)
FindFrom(t, sep, i) ==
    IF i + Len(sep) > Len(t) THEN -1
    ELSE IF SubSeq(t, i + 1, i + Len(sep)) = sep THEN i
    ELSE FindFrom(t, sep, i + 1)

Find(t, sep) == FindFrom(t, sep, 0)

Contains(t, p) == Find(t, p) >= 0

RECURSIVE Split(_, _)
Split(t, sep) ==
    LET i == Find(t, sep)
    IN  IF i < 0 THEN <<t>>
        ELSE <<Slice(t, 0, i)>> \o Split(From(t, i + Len(sep)), sep)

RECURSIVE Join(_, _)
Join(sep, parts) ==
    IF parts = <<>> THEN <<>>
    ELSE IF Len(parts) = 1 THEN parts[1]
    ELSE parts[1] \o sep \o Join(sep, Tail(parts))

RECURSIVE Replace(_, _, _)
Replace(t, old, new) ==
    LET i == Find(t, old)
    IN  IF i < 0 THEN t
        ELSE Slice(t, 0, i) \o new \o Replace(From(t, i + Len(old)), old, new)

RECURSIVE Concat(_)
Concat(parts) == IF parts = <<>> THEN <<>> ELSE Head(parts) \o Concat(Tail(parts))

(***************************************************************************)
(* file_writing.py: the pure helpers.                                      *)
(***************************************************************************)
_detect_newline(text) == IF Contains(text, <<CR, LF>>) THEN <<CR, LF>> ELSE <<LF>>

\* a variant that strips the BOM and does not report it
_strip_bom_unreported(text) ==
    [text |-> IF StartsWith(text, <<BOM>>) THEN From(text, 1) ELSE text, had_bom |-> FALSE]

_strip_bom(text) ==
    IF StartsWith(text, <<BOM>>)
    THEN [text |-> From(text, 1), had_bom |-> TRUE]
    ELSE [text |-> text, had_bom |-> FALSE]

\* the index of the first line after line 0 that is exactly '---', or 0
\* a variant that closes the block at the last '---' line
ClosingLineLast(lines) ==
    IF \E i \in 2..Len(lines) : lines[i] = MARKER
    THEN CHOOSE i \in 2..Len(lines) :
            lines[i] = MARKER /\ \A j \in (i + 1)..Len(lines) : lines[j] # MARKER
    ELSE 0

\* lines 56-57: the index of the first line after the opening one that is '---'
ClosingLine(lines) ==
    IF \E i \in 2..Len(lines) : lines[i] = MARKER
    THEN CHOOSE i \in 2..Len(lines) :
            lines[i] = MARKER /\ \A j \in 2..(i - 1) : lines[j] # MARKER
    ELSE 0

\* a variant that takes the rest of the text as the block when no line closes it
_find_frontmatter_bounds_unclosed(text) ==
    LET nl == _detect_newline(text)
        lines == Split(text, nl)
        i == ClosingLine(lines)
        prefix_len == Len(MARKER \o nl)
        yaml_part == Join(nl, SubSeq(lines, 2, i - 1))
    IN  IF ~StartsWith(text, MARKER \o nl)
        THEN [err |-> "no_opening", start |-> 0, end |-> 0, nl |-> nl]
        ELSE IF i = 0
        THEN [err |-> "none", start |-> prefix_len, end |-> Len(text), nl |-> nl]
        ELSE [err |-> "none", start |-> prefix_len,
              end |-> prefix_len + Len(yaml_part), nl |-> nl]

_find_frontmatter_bounds(text) ==
    LET nl == _detect_newline(text)
        lines == Split(text, nl)
        i == ClosingLine(lines)
        prefix_len == Len(MARKER \o nl)
        yaml_part == Join(nl, SubSeq(lines, 2, i - 1))
    IN  IF ~StartsWith(text, MARKER \o nl)
        THEN [err |-> "no_opening", start |-> 0, end |-> 0, nl |-> nl]
        ELSE IF i = 0
        THEN [err |-> "no_closing", start |-> 0, end |-> 0, nl |-> nl]
        ELSE [err |-> "none", start |-> prefix_len,
              end |-> prefix_len + Len(yaml_part), nl |-> nl]

(***************************************************************************)
(* yaml.safe_load and yaml.safe_dump on the fragment of YAML the model's   *)
(* documents use: block mappings "key: scalar", block sequences            *)
(* "- scalar", the flow collections "[]" and "{}", plain scalars, comments *)
(* and blank lines; an unclosed flow collection or a mix of node kinds is  *)
(* a syntax error.  A scalar is [t |-> its type, s |-> the text safe_dump  *)
(* writes for it]; a Python object is [kind, items] with items a sequence  *)
(* of [k, v] in insertion order (k is <<>> outside a dict).                *)
(***************************************************************************)
NullText == <<"n", "u", "l", "l">>
TrueText == <<"t", "r", "u", "e">>
FalseText == <<"f", "a", "l", "s", "e">>
Digits == {"0", "1", "2", "3", "4", "5", "6", "7", "8", "9"}

ResolveScalar(tok) ==
    IF tok = <<>> \/ tok = <<"~">> \/ tok = NullText THEN [t |-> "null", s |-> NullText]
    ELSE IF tok = TrueText \/ tok = FalseText THEN [t |-> "bool", s |-> tok]
    ELSE IF Len(tok) = 1 /\ tok[1] \in Digits THEN [t |-> "int", s |-> tok]
    ELSE [t |-> "str", s |-> tok]

LineKind(line) ==
    IF line = <<>> \/ StartsWith(line, <<"#">>) THEN "blank"
    ELSE IF line = <<"[", "]">> THEN "flowseq"
    ELSE IF line = <<"{", "}">> THEN "flowmap"
    ELSE IF line[1] \in {"[", "]", "{", "}"} THEN "bad"
    ELSE IF StartsWith(line, <<"-", " ">>) THEN "item"
    ELSE IF Contains(line, <<":", " ">>) \/ EndsWith(line, <<":">>)
         THEN IF Find(line, <<":">>) = 0
                   \/ Contains(From(line, Find(line, <<":">>) + 1), <<":", " ">>)
                   \/ EndsWith(From(line, Find(line, <<":">>) + 1), <<":">>)
              THEN "bad" ELSE "entry"
    ELSE "plain"

EntryOf(line) ==
    LET i == Find(line, <<":">>)
    IN  [k |-> Slice(line, 0, i), v |-> ResolveScalar(From(line, Min(i + 2, Len(line))))]

\* a variant that moves a key it overwrites to the end
DictSetMovesLast(items, e) ==
    Append(SelectSeq(items, LAMBDA x : x.k # e.k), e)

\* d[k] = v of a dict: an existing key keeps its place, a new one goes last
DictSet(items, e) ==
    IF \E i \in 1..Len(items) : items[i].k = e.k
    THEN [i \in 1..Len(items) |-> IF items[i].k = e.k THEN e ELSE items[i]]
    ELSE Append(items, e)

RECURSIVE DictUpdate(_, _)
DictUpdate(items, other) ==
    IF other = <<>> THEN items
    ELSE DictUpdate(DictSet(items, Head(other)), Tail(other))

safe_load(text) ==
    LET all == Split(Replace(text, <<CR, LF>>, <<LF>>), <<LF>>)
        lines == SelectSeq(all, LAMBDA l : LineKind(l) # "blank")
        kinds == {LineKind(lines[i]) : i \in 1..Len(lines)}
    IN  IF lines = <<>> THEN [kind |-> "scalar", items |-> <<[k |-> <<>>, v |-> ResolveScalar(<<>>)]>>]
        ELSE IF kinds = {"entry"}
        THEN [kind |-> "dict",
              items |-> DictUpdate(<<>>, [i \in 1..Len(lines) |-> EntryOf(lines[i])])]
        ELSE IF kinds = {"item"}
        THEN [kind |-> "list",
              items |-> [i \in 1..Len(lines) |->
                            [k |-> <<>>, v |-> ResolveScalar(From(lines[i], 2))]]]
        ELSE IF kinds = {"flowseq"} /\ Len(lines) = 1 THEN [kind |-> "list", items |-> <<>>]
        ELSE IF kinds = {"flowmap"} /\ Len(lines) = 1 THEN [kind |-> "dict", items |-> <<>>]
        ELSE IF kinds = {"plain"}
        THEN [kind |-> "scalar",
              items |-> <<[k |-> <<>>,
                           v |-> IF Len(lines) = 1 THEN ResolveScalar(lines[1])
                                 ELSE [t |-> "str", s |-> Join(<<" ">>, lines)]]>>]
        ELSE [kind |-> "error", items |-> <<>>]

\* bool(obj) of Python
Truthy(obj) ==
    IF obj.kind \in {"dict", "list"} THEN obj.items # <<>>
    ELSE LET v == obj.items[1].v
         IN  CASE v.t = "null" -> FALSE
               [] v.t = "bool" -> v.s = TrueText
               [] v.t = "int" -> v.s # <<"0">>
               [] OTHER -> v.s # <<>>

\* yaml.safe_dump(meta, sort_keys=False, allow_unicode=True) of a dict
safe_dump(items) ==
    IF items = <<>> THEN <<"{", "}", LF>>
    ELSE Concat([i \in 1..Len(items) |-> items[i].k \o <<":", " ">> \o items[i].v.s \o <<LF>>])

(***************************************************************************)
(* Text-mode file I/O (open(..., "r"/"w", encoding="utf-8"), newline=None):*)
(* reading turns "\r\n" and "\r" into "\n", writing turns "\n" into        *)
(* os.linesep.  The BOM is one character of the text on both sides.        *)
(***************************************************************************)
ReadText(bytes) == Replace(Replace(bytes, <<CR, LF>>, <<LF>>), <<CR>>, <<LF>>)

\* os.linesep: the service runs on POSIX (its data lives under "/data")
os_linesep == <<LF>>

WriteText(text, sep) == IF sep = <<LF>> THEN text ELSE Replace(text, <<LF>>, sep)

\* what a write that fails after open() truncated the file may leave behind
PartialWrites(data) == {<<>>, Slice(data, 0, Len(data) - 1)}

(***************************************************************************)
(* update_frontmatter_async, steps 2-7: everything between the read and    *)
(* the write.  err is "none" or the reason FrontMatterError is raised.     *)
(***************************************************************************)
MetaOf(loaded) == IF Truthy(loaded) THEN loaded ELSE [kind |-> "dict", items |-> <<>>]

Reassemble(body_text, b, new_yaml) ==
    Slice(body_text, 0, b.start) \o new_yaml \o From(body_text, b.end)

update_plan(original, params) ==
    LET sb == _strip_bom(original)
        body_text == sb.text
        b == _find_frontmatter_bounds(body_text)
        loaded == safe_load(Slice(body_text, b.start, b.end))
        meta == MetaOf(loaded)
        dumped == safe_dump(DictUpdate(meta.items, params))
        new_yaml == IF b.nl # <<LF>> THEN Replace(dumped, <<LF>>, b.nl) ELSE dumped
        new_body == Reassemble(body_text, b, new_yaml)
        final_text == IF sb.had_bom THEN <<BOM>> \o new_body ELSE new_body
    IN  IF b.err # "none" THEN [err |-> b.err, final |-> <<>>]
        ELSE IF loaded.kind = "error" THEN [err |-> "yaml", final |-> <<>>]
        ELSE IF meta.kind # "dict" THEN [err |-> "not_mapping", final |-> <<>>]
        ELSE [err |-> "none", final |-> final_text]

(***************************************************************************)
(* The documents and update requests the updater is run on.                *)
(***************************************************************************)
Txt1(a) == <<a>>
Txt4(a, b, c, d) == <<a, b, c, d>>

MappingLines == {Txt4("a", ":", " ", "1"), Txt4("b", ":", " ", "2"), <<>>}

SpecialBlocks ==
    { <<Txt4("a", ":", " ", "~")>>, <<<<"[", "]">>>>, <<<<"{", "}">>>>, <<Txt1("0")>>,
      <<FalseText>>, <<Txt1("~")>>, <<<<"-", " ", "1">>>>, <<Txt1("x")>>, <<Txt1("[")>>,
      <<<<"#", "c">>, Txt4("a", ":", " ", "1")>> }

Blocks == UNION {[1..n -> MappingLines] : n \in 0..MaxBlockLines} \cup SpecialBlocks

Newlines == {<<LF>>, <<CR, LF>>}

\* what follows the closing '---': nothing, a newline, a body, a body with a '---' line
Tails(nl) == {<<>>, nl, nl \o <<"x">> \o nl, nl \o <<"x">> \o nl \o MARKER \o nl}

Lines(block, nl) == Concat([i \in 1..Len(block) |-> block[i] \o nl])

Render(d) ==
    (IF d.bom THEN <<BOM>> ELSE <<>>)
    \o (CASE d.shape = "ok" -> MARKER \o d.nl \o Lines(d.block, d.nl) \o MARKER \o d.tail
          [] d.shape = "no_closing" -> MARKER \o d.nl \o Lines(d.block, d.nl) \o <<"x">> \o d.tail
          [] d.shape = "no_opening" -> <<"-", "-">> \o d.nl \o Lines(d.block, d.nl) \o MARKER \o d.tail)

Docs ==
    UNION { { [shape |-> sh, bom |-> bm, nl |-> nl, block |-> bl, tail |-> tl] :
                sh \in {"ok", "no_closing", "no_opening"}, bm \in BOOLEAN,
                bl \in Blocks, tl \in Tails(nl) } : nl \in Newlines }

Entry(k, v) == [k |-> <<k>>, v |-> ResolveScalar(<<v>>)]

\* the params dict of a call, in insertion order
Requests ==
    { <<>>, <<Entry("a", "1")>>, <<Entry("b", "2")>>, <<Entry("b", "0"), Entry("c", "1")>> }

(***************************************************************************)
(* The state.  One call of update_frontmatter_async(path, params):         *)
(*   disk      the characters of the file at path                          *)
(*   upc       where the call is: "start", "w_open", "w_data" (the write   *)
(*             of the new text), "r_open", "r_data" (the rollback), "done" *)
(*   original, final_text   the locals of the call                         *)
(*   result    "none", "ok", or the exception the call raised              *)
(*   writes    the calls of _write_text_async so far, each [what, status]  *)
(*   log       the logger calls so far                                     *)
(* doc and disk0 record the document the call started from.                *)
(***************************************************************************)
VARIABLES disk, params, upc, original, final_text, result, writes, log,
          doc, disk0

uvars == <<disk, params, upc, original, final_text, result, writes, log,
           doc, disk0>>

(***************************************************************************)
(* One call of walk_through_files(start_folder, handler, max_concurrency): *)
(*   tree      the file names os.walk yields, in its order                 *)
(*   limit     max_concurrency                                             *)
(*   wpc       "idle", "walk" (the for loop), "gather" (line 32),          *)
(*             "returned"                                                  *)
(*   scanned   how many names of tree the loop has looked at               *)
(*   task      per file: "none" (no task), "created", "waiting" (on the    *)
(*             semaphore), "woken", "running" (inside the handler), "done" *)
(*   sem, waiters   the semaphore's value and its FIFO of waiting tasks    *)
(*   susp      per file: how often its handler has suspended               *)
(*   invoked   per file: how often the handler was called on it            *)
(*   raised    the files whose handler raised                              *)
(*   tres      per file: how its task ended: "none", "ok", "exc"           *)
(*   wlog      the paths logger.error was called with, in this walk        *)
(*   wres      how the walk ended: "none", "ok", "exc"                     *)
(***************************************************************************)
VARIABLES tree, limit, wpc, scanned, task, sem, waiters, susp, invoked, raised, tres,
          wlog, wres

wvars == <<tree, limit, wpc, scanned, task, sem, waiters, susp, invoked, raised, tres,
           wlog, wres>>

(***************************************************************************)
(* What the further scenarios add to one call and one walk:                *)
(*   calls     which call of update_frontmatter_async on the file this is  *)
(*   located   what _find_frontmatter_bounds gave for a text handed to it  *)
(*   pass      which walk of the periodic loop this is                     *)
(*   inupd     the files whose handler, in this walk, has called           *)
(*             update_frontmatter_async on them                            *)
(*   stale     the files with such a call of an earlier walk still running *)
(*   rpc       where a second handler is that reads the file to see if its *)
(*             directory is an item container: "idle", "start", "done"     *)
(*   seen      the text that handler read                                  *)
(***************************************************************************)
VARIABLES calls, located, pass, inupd, stale, rpc, seen

lvars == <<pass, inupd, stale>>

rvars == <<rpc, seen>>

xvars == <<calls, located, lvars, rvars>>

vars == <<uvars, wvars, xvars>>

NotLocated == [err |-> "pending", start |-> 0, end |-> 0, nl |-> <<>>]

ScenariosIdle ==
    /\ calls = 1 /\ located = NotLocated
    /\ pass = 1 /\ inupd = {} /\ stale = {}
    /\ rpc = "idle" /\ seen = <<>>

WalkerIdle ==
    /\ tree = <<>> /\ limit = 1 /\ wpc = "idle" /\ scanned = 0
    /\ task = <<>> /\ sem = 1 /\ waiters = <<>> /\ susp = <<>> /\ invoked = <<>>
    /\ raised = {} /\ tres = <<>> /\ wlog = <<>> /\ wres = "none"

InitUpd ==
    /\ WalkerIdle
    /\ ScenariosIdle
    /\ doc \in {d \in Docs : d.shape = "ok" \/ d.tail = d.nl}
    /\ disk = Render(doc)
    /\ disk0 = disk
    /\ params \in Requests
    /\ upc = "start"
    /\ original = <<>>
    /\ final_text = <<>>
    /\ result = "none"
    /\ writes = <<>>
    /\ log = <<>>

\* a variant that compares before the BOM is put back
UnchangedBody(final, orig) == _strip_bom(final).text = orig

\* line 128: the text to write is the text that was read
Unchanged(final, orig) == final = orig

\* lines 92-129: the read, then everything up to the first write
UpdRead ==
    /\ upc = "start"
    /\ LET text == ReadText(disk)
           plan == update_plan(text, params)
       IN  /\ original' = text
           /\ final_text' = plan.final
           /\ IF plan.err # "none"
              THEN upc' = "done" /\ result' = plan.err
              ELSE IF Unchanged(plan.final, text)
              THEN upc' = "done" /\ result' = "ok"
              ELSE upc' = "w_open" /\ result' = "none"
    /\ UNCHANGED <<disk, params, writes, log, doc, disk0, wvars, xvars>>

\* line 93: the read raises (the file is gone, or is not UTF-8)
UpdReadFail ==
    /\ upc = "start"
    /\ upc' = "done"
    /\ result' = "OSError"
    /\ UNCHANGED <<disk, params, original, final_text, writes, log, doc, disk0, wvars, xvars>>

\* a variant that restores the text with its BOM stripped
RestoredBody(orig) == _strip_bom(orig).text

\* the text the rollback writes back (line 140)
RestoredText(orig) == orig

SetLast(seq, st) == [seq EXCEPT ![Len(seq)].status = st]

\* a variant that returns normally when the rollback succeeded
AfterRollbackSwallowed(restored) == IF restored THEN "ok" ELSE "write_failed"

\* the exception update_frontmatter_async ends with once the write has failed
AfterRollback(restored) == "write_failed"

\* line 134 -> 76: open(path, "w") of the new text; it truncates the file
WriteOpen ==
    /\ upc = "w_open"
    /\ \/ /\ disk' = <<>>
          /\ writes' = Append(writes, [what |-> "new", status |-> "open"])
          /\ upc' = "w_data"
          /\ log' = log
       \/ /\ disk' = disk
          /\ writes' = Append(writes, [what |-> "new", status |-> "failed"])
          /\ upc' = "r_open"
          /\ log' = Append(log, "warning: write failed")
    /\ UNCHANGED <<params, original, final_text, result, doc, disk0, wvars, xvars>>

\* line 134 -> 77: f.write(final_text) and the close
WriteData ==
    /\ upc = "w_data"
    /\ \/ /\ disk' = WriteText(final_text, os_linesep)
          /\ writes' = SetLast(writes, "ok")
          /\ upc' = "done"
          /\ result' = "ok"
          /\ log' = Append(log, "debug: updated")
       \/ /\ disk' \in PartialWrites(WriteText(final_text, os_linesep))
          /\ writes' = SetLast(writes, "failed")
          /\ upc' = "r_open"
          /\ result' = result
          /\ log' = Append(log, "warning: write failed")
    /\ UNCHANGED <<params, original, final_text, doc, disk0, wvars, xvars>>

\* line 140 -> 76: open(path, "w") of the rollback
RollbackOpen ==
    /\ upc = "r_open"
    /\ \/ /\ disk' = <<>>
          /\ writes' = Append(writes, [what |-> "orig", status |-> "open"])
          /\ upc' = "r_data"
          /\ UNCHANGED <<result, log>>
       \/ /\ disk' = disk
          /\ writes' = Append(writes, [what |-> "orig", status |-> "failed"])
          /\ upc' = "done"
          /\ result' = AfterRollback(FALSE)
          /\ log' = Append(log, "critical: not restored")
    /\ UNCHANGED <<params, original, final_text, doc, disk0, wvars, xvars>>

\* line 140 -> 77: f.write(original) and the close, then line 147
RollbackData ==
    /\ upc = "r_data"
    /\ upc' = "done"
    /\ \/ /\ disk' = WriteText(RestoredText(original), os_linesep)
          /\ writes' = SetLast(writes, "ok")
          /\ result' = AfterRollback(TRUE)
          /\ log' = Append(log, "warning: restored")
       \/ /\ disk' \in PartialWrites(WriteText(RestoredText(original), os_linesep))
          /\ writes' = SetLast(writes, "failed")
          /\ result' = AfterRollback(FALSE)
          /\ log' = Append(log, "critical: not restored")
    /\ UNCHANGED <<params, original, final_text, doc, disk0, wvars, xvars>>

NextUpd == UpdRead \/ UpdReadFail \/ WriteOpen \/ WriteData \/ RollbackOpen \/ RollbackData

SpecUpd == InitUpd /\ [][NextUpd]_vars

(***************************************************************************)
(* Two calls in a row: once update_frontmatter_async(path, params) has     *)
(* returned normally it is called again with the same path and params on   *)
(* the file as the first call left it.                                     *)
(***************************************************************************)
CallAgain ==
    /\ upc = "done" /\ result = "ok" /\ calls = 1
    /\ calls' = 2
    /\ upc' = "start"
    /\ disk0' = disk
    /\ original' = <<>> /\ final_text' = <<>> /\ result' = "none"
    /\ writes' = <<>> /\ log' = <<>>
    /\ UNCHANGED <<disk, params, doc, wvars, located, lvars, rvars>>

NextTwice ==
    \/ UpdRead \/ UpdReadFail \/ WriteOpen \/ WriteData \/ RollbackOpen \/ RollbackData
    \/ CallAgain

SpecTwice == InitUpd /\ [][NextTwice]_vars

(***************************************************************************)
(* _find_frontmatter_bounds on its own, called on a text in memory: any of *)
(* the documents without its BOM, with LF or CRLF line ends, or with an LF *)
(* opening line and CRLF further down.                                     *)
(***************************************************************************)
MixedDocs ==
    { [shape |-> "ok", bom |-> FALSE, nl |-> <<LF>>, block |-> bl, tail |-> tl] :
        bl \in Blocks, tl \in Tails(<<CR, LF>>) \ {<<>>} }

InitLocate ==
    /\ WalkerIdle
    /\ ScenariosIdle
    /\ doc \in {d \in Docs : ~d.bom} \cup MixedDocs
    /\ original = Render(doc)
    /\ upc = "locate"
    /\ disk = <<>> /\ disk0 = <<>> /\ params = <<>> /\ final_text = <<>>
    /\ result = "none" /\ writes = <<>> /\ log = <<>>

\* lines 39-67: one call of _find_frontmatter_bounds(original)
Locate ==
    /\ upc = "locate"
    /\ located' = _find_frontmatter_bounds(original)
    /\ upc' = "located"
    /\ UNCHANGED <<disk, params, original, final_text, result, writes, log, doc, disk0,
                   wvars, calls, lvars, rvars>>

NextLocate == Locate

SpecLocate == InitLocate /\ [][NextLocate]_vars

(***************************************************************************)
(* utils.py: walk_through_files.                                           *)
(***************************************************************************)
MD == <<".", "m", "d">>

FileNames == {<<"a">> \o MD, <<"a">> \o MD \o <<"x">>, <<"m", "d">>}

Trees == UNION {[1..n -> FileNames] : n \in 0..MaxFiles}

UpdaterIdle ==
    /\ doc = [shape |-> "none", bom |-> FALSE, nl |-> <<LF>>, block |-> <<>>, tail |-> <<>>]
    /\ disk = <<>> /\ disk0 = <<>> /\ params = <<>> /\ upc = "idle"
    /\ original = <<>> /\ final_text = <<>> /\ result = "none" /\ writes = <<>> /\ log = <<>>

InitWalk ==
    /\ UpdaterIdle
    /\ ScenariosIdle
    /\ tree \in Trees
    /\ limit \in 1..MaxLimit
    /\ wpc = "walk"
    /\ scanned = 0
    /\ task = [t \in 1..Len(tree) |-> "none"]
    /\ sem = limit
    /\ waiters = <<>>
    /\ susp = [t \in 1..Len(tree) |-> 0]
    /\ invoked = [t \in 1..Len(tree) |-> 0]
    /\ raised = {}
    /\ tres = [t \in 1..Len(tree) |-> "none"]
    /\ wlog = <<>>
    /\ wres = "none"

\* a variant that looks for ".md" anywhere in the name
MatchesAnywhere(file) == Contains(file, MD)

\* line 27
Matches(file) == EndsWith(file, MD)

\* lines 25-29: the loop looks at one more name and creates its task
Discover ==
    /\ wpc = "walk" /\ scanned < Len(tree)
    /\ scanned' = scanned + 1
    /\ task' = IF Matches(tree[scanned + 1]) THEN [task EXCEPT ![scanned + 1] = "created"]
               ELSE task
    /\ UNCHANGED <<tree, limit, wpc, sem, waiters, susp, invoked, raised, tres, wlog, wres, uvars, xvars>>

\* line 32: the loop is over, gather is awaited; only now can a task run
StartGather ==
    /\ wpc = "walk" /\ scanned = Len(tree)
    /\ wpc' = "gather"
    /\ UNCHANGED <<tree, limit, scanned, task, sem, waiters, susp, invoked, raised, tres,
                   wlog, wres, uvars, xvars>>

\* a variant that never makes a task wait
SemNeverLocked(value, queue) == FALSE

\* Semaphore.locked(): no slot is free, or tasks are queued ahead
SemLocked(value, queue) == value = 0 \/ queue # <<>>

\* line 19, entering: the task takes a slot and calls the handler, or queues
TaskAcquire(t) ==
    /\ wpc = "gather" /\ task[t] = "created"
    /\ IF SemLocked(sem, waiters)
       THEN /\ waiters' = Append(waiters, t)
            /\ task' = [task EXCEPT ![t] = "waiting"]
            /\ UNCHANGED <<sem, invoked>>
       ELSE /\ sem' = sem - 1
            /\ task' = [task EXCEPT ![t] = "running"]
            /\ invoked' = [invoked EXCEPT ![t] = @ + 1]
            /\ UNCHANGED waiters
    /\ UNCHANGED <<tree, limit, wpc, scanned, susp, raised, tres, wlog, wres, uvars, xvars>>

\* line 19, a woken waiter resumes with the slot handed to it and calls the handler
TaskResume(t) ==
    /\ wpc = "gather" /\ task[t] = "woken"
    /\ task' = [task EXCEPT ![t] = "running"]
    /\ invoked' = [invoked EXCEPT ![t] = @ + 1]
    /\ UNCHANGED <<tree, limit, wpc, scanned, sem, waiters, susp, raised, tres, wlog, wres, uvars, xvars>>

\* line 21: the handler awaits something and is resumed later
HandlerSuspend(t) ==
    /\ wpc = "gather" /\ task[t] = "running" /\ susp[t] < MaxSuspend
    /\ susp' = [susp EXCEPT ![t] = @ + 1]
    /\ UNCHANGED <<tree, limit, wpc, scanned, task, sem, waiters, invoked, raised, tres,
                   wlog, wres, uvars, xvars>>

\* a variant that frees the slot and wakes nobody
ReleaseWakesNobody(t) ==
    /\ task' = [task EXCEPT ![t] = "done"]
    /\ waiters' = waiters
    /\ sem' = sem + 1

\* line 19, leaving: Semaphore.release() gives the slot to the first waiter, if any
Release(t) ==
    IF waiters # <<>>
    THEN /\ task' = [task EXCEPT ![t] = "done", ![Head(waiters)] = "woken"]
         /\ waiters' = Tail(waiters)
         /\ sem' = sem
    ELSE /\ task' = [task EXCEPT ![t] = "done"]
         /\ waiters' = waiters
         /\ sem' = sem + 1

\* a variant without the try/except
CatchesNothing(e) == FALSE

\* line 22: the exceptions of the handler that wrapped catches
Catches(e) == e = "Exception"

\* line 21 returns
HandlerReturn(t) ==
    /\ wpc = "gather" /\ task[t] = "running"
    /\ Release(t)
    /\ tres' = [tres EXCEPT ![t] = "ok"]
    /\ UNCHANGED <<tree, limit, wpc, scanned, susp, invoked, raised, wlog, wres, uvars, xvars>>

\* line 21 raises; lines 22-23
HandlerRaise(t) ==
    /\ wpc = "gather" /\ task[t] = "running"
    /\ Release(t)
    /\ raised' = raised \cup {t}
    /\ IF Catches("Exception")
       THEN tres' = [tres EXCEPT ![t] = "ok"] /\ wlog' = Append(wlog, t)
       ELSE tres' = [tres EXCEPT ![t] = "exc"] /\ wlog' = wlog
    /\ UNCHANGED <<tree, limit, wpc, scanned, susp, invoked, wres, uvars, xvars>>

\* a variant that leaves the tasks running and does not wait for them
GatherNotAwaited(tasks) == TRUE

\* a variant that waits for the first task only
GatherFirstCompleted(tasks) ==
    (\A t \in 1..Len(tasks) : tasks[t] = "none") \/ (\E t \in 1..Len(tasks) : tasks[t] = "done")

\* line 32: gather is done once every task it was given is
GatherReady(tasks) == \A t \in 1..Len(tasks) : tasks[t] \in {"none", "done"}

\* line 32: with return_exceptions=True a task's exception is one of the results
GatherResult(results) == "ok"

GatherReturn ==
    /\ wpc = "gather" /\ GatherReady(task)
    /\ wpc' = "returned"
    /\ wres' = GatherResult(tres)
    /\ UNCHANGED <<tree, limit, scanned, task, sem, waiters, susp, invoked, raised, tres,
                   wlog, uvars, xvars>>

NextWalk ==
    \/ Discover
    \/ StartGather
    \/ \E t \in 1..Len(tree) : TaskAcquire(t)
    \/ \E t \in 1..Len(tree) : TaskResume(t)
    \/ \E t \in 1..Len(tree) : HandlerSuspend(t)
    \/ \E t \in 1..Len(tree) : HandlerReturn(t)
    \/ \E t \in 1..Len(tree) : HandlerRaise(t)
    \/ GatherReturn

SpecWalk == InitWalk /\ [][NextWalk]_vars

\* The event loop runs a ready callback whenever there is one, and a handler
\* suspends at most MaxSuspend times before it returns or raises.
SpecWalkFair == InitWalk /\ [][NextWalk]_vars /\ WF_vars(NextWalk)

(***************************************************************************)
(* item_params.py: make_actual_item_params, the periodic loop.  Each walk  *)
(* is walk_through_files with ensure_correct_path as the handler; a file   *)
(* of the tree is a path, the same paths in every walk.                    *)
(***************************************************************************)
\* line 42: the handler of path t calls update_frontmatter_async(path, params);
\* the call is over when the handler returns or raises
HandlerUpdate(t) ==
    /\ wpc = "gather" /\ task[t] = "running" /\ t \notin inupd
    /\ inupd' = inupd \cup {t}
    /\ UNCHANGED <<wvars, uvars, calls, located, pass, stale, rvars>>

\* the calls of update_frontmatter_async of this walk that have not ended
Updating == {t \in inupd : task[t] = "running"}

\* lines 135-137, then 133 again: the walk has returned, remove_unnamed_files finds
\* no name that starts with "без названия", the loop sleeps and walks again
WalkAgain ==
    /\ wpc = "returned" /\ pass < MaxWalks
    /\ pass' = pass + 1
    /\ stale' = stale \cup Updating
    /\ inupd' = {}
    /\ wpc' = "walk"
    /\ scanned' = 0
    /\ task' = [t \in 1..Len(tree) |-> "none"]
    /\ sem' = limit
    /\ waiters' = <<>>
    /\ susp' = [t \in 1..Len(tree) |-> 0]
    /\ invoked' = [t \in 1..Len(tree) |-> 0]
    /\ raised' = {}
    /\ tres' = [t \in 1..Len(tree) |-> "none"]
    /\ wres' = "none"
    /\ wlog' = <<>>
    /\ UNCHANGED <<tree, limit, uvars, calls, located, rvars>>

NextLoop ==
    \/ Discover
    \/ StartGather
    \/ \E t \in 1..Len(tree) : TaskAcquire(t)
    \/ \E t \in 1..Len(tree) : TaskResume(t)
    \/ \E t \in 1..Len(tree) : HandlerUpdate(t)
    \/ \E t \in 1..Len(tree) : HandlerReturn(t)
    \/ \E t \in 1..Len(tree) : HandlerRaise(t)
    \/ GatherReturn
    \/ WalkAgain

SpecLoop == InitWalk /\ [][NextLoop]_vars

(***************************************************************************)
(* utils.py and item_params.py: two handlers of one walk and the file      *)
(* d/d.md, the item file of its own directory d.  The handler of d/d.md    *)
(* (ensure_correct_path) may rewrite it; the handler of another file of d  *)
(* reads it in is_file_in_item_container.                                  *)
(***************************************************************************)
Whitespace == {" ", LF, CR}

RECURSIVE LStrip(_)
LStrip(t) == IF t # <<>> /\ Head(t) \in Whitespace THEN LStrip(Tail(t)) ELSE t

RECURSIVE RStrip(_)
RStrip(t) ==
    IF t # <<>> /\ t[Len(t)] \in Whitespace THEN RStrip(SubSeq(t, 1, Len(t) - 1)) ELSE t

\* str.strip()
Strip(t) == RStrip(LStrip(t))

\* f.readlines() of a file opened for reading as text: the lines with their "\n"
ReadLines(text) ==
    LET parts == Split(text, <<LF>>)
        n == Len(parts)
    IN  [i \in 1..(n - 1) |-> parts[i] \o <<LF>>]
        \o (IF parts[n] = <<>> THEN <<>> ELSE <<parts[n]>>)

EmptyDict == [kind |-> "dict", items |-> <<>>]

\* utils.py lines 56-76, on the text of the file
return_file_params(text) ==
    LET lines == ReadLines(text)
        Closes(i) == StartsWith(Strip(lines[i]), MARKER)
        stop == IF \E i \in 2..Len(lines) : Closes(i)
                THEN CHOOSE i \in 2..Len(lines) : Closes(i) /\ \A j \in 2..(i - 1) : ~Closes(j)
                ELSE Len(lines) + 1
        data == safe_load(Concat(SubSeq(lines, 2, stop - 1)))
    IN  IF Len(lines) < 3 \/ ~StartsWith(Strip(lines[1]), MARKER) THEN EmptyDict
        ELSE IF data.kind = "error" THEN data
        ELSE MetaOf(data)

ItemKey == <<"i", "t", "e", "m">>

PathKey == <<"p", "a", "t", "h">>

\* val.get(key)
DictGet(val, key) ==
    IF \E i \in 1..Len(val.items) : val.items[i].k = key
    THEN (CHOOSE e \in {val.items[i] : i \in 1..Len(val.items)} : e.k = key).v
    ELSE [t |-> "absent", s |-> <<>>]

\* utils.py lines 35-36, for a dict: str(True).lower() is "true"
is_item_true(val) == DictGet(val, ItemKey).s = TrueText

\* utils.py lines 39-53, on the text read from dir/dir.md: "yes", "no", or "raised"
is_file_in_item_container(text) ==
    LET val == return_file_params(text)
    IN  IF val.kind # "dict" THEN "raised"
        ELSE IF is_item_true(val) THEN "yes" ELSE "no"

\* item_params.py lines 34-37 for d/d.md: the path the file should carry
actual_path == [t |-> "str", s |-> <<"d">>]

ItemBlocks ==
    { <<ItemKey \o <<":", " ">> \o TrueText>>,
      <<ItemKey \o <<":", " ">> \o TrueText, PathKey \o <<":", " ", "y">>>>,
      <<ItemKey \o <<":", " ">> \o TrueText, PathKey \o <<":", " ", "d">>>>,
      <<ItemKey \o <<":", " ">> \o FalseText>> }

ItemDocs ==
    UNION { { [shape |-> "ok", bom |-> bm, nl |-> nl, block |-> bl, tail |-> tl] :
                bm \in BOOLEAN, bl \in ItemBlocks, tl \in Tails(nl) } : nl \in Newlines }

InitRace ==
    /\ WalkerIdle
    /\ calls = 1 /\ located = NotLocated /\ pass = 1 /\ inupd = {} /\ stale = {}
    /\ doc \in ItemDocs
    /\ disk = Render(doc)
    /\ disk0 = disk
    /\ params = <<>>
    /\ upc = "handler"
    /\ original = <<>> /\ final_text = <<>> /\ result = "none"
    /\ writes = <<>> /\ log = <<>>
    /\ rpc = "start" /\ seen = <<>>

\* item_params.py lines 23-41 in the handler of d/d.md: it reads the file as the
\* item file of its directory, reads it again as its own, and calls the updater
\* when the path in it is not the actual one
OwnerDecide ==
    /\ upc = "handler"
    /\ LET text == ReadText(disk)
           own == return_file_params(text)
       IN  IF is_file_in_item_container(text) = "raised"
           THEN upc' = "done" /\ result' = "raised" /\ params' = params
           ELSE IF is_file_in_item_container(text) = "no" \/ ~is_item_true(own)
           THEN upc' = "done" /\ result' = "not_item" /\ params' = params
           ELSE IF DictGet(own, PathKey) = actual_path
           THEN upc' = "done" /\ result' = "path_ok" /\ params' = params
           ELSE /\ upc' = "start" /\ result' = "none"
                /\ params' = DictSet(own.items, [k |-> PathKey, v |-> actual_path])
    /\ UNCHANGED <<disk, original, final_text, writes, log, doc, disk0, wvars, xvars>>

\* utils.py lines 44 -> 58-59 in the handler of another file of d: the read
ReaderCheck ==
    /\ rpc = "start"
    /\ seen' = ReadText(disk)
    /\ rpc' = "done"
    /\ UNCHANGED <<uvars, wvars, calls, located, lvars>>

NextRace ==
    \/ OwnerDecide
    \/ UpdRead \/ UpdReadFail \/ WriteOpen \/ WriteData \/ RollbackOpen \/ RollbackData
    \/ ReaderCheck

SpecRace == InitRace /\ [][NextRace]_vars

(***************************************************************************)
(* What the claims about the walker speak of.                              *)
(***************************************************************************)
Tasks == 1..Len(tree)

\* the handler invocations that have started and not yet settled
InFlight == {t \in Tasks : task[t] = "running"}

Dispatched == {t \in Tasks : task[t] # "none"}

(***************************************************************************)
(* C1: during a walk with concurrency limit L >= 1, at most L handler      *)
(* invocations have started and not yet settled, in every reachable state. *)
(***************************************************************************)
C1_AtMostLimitInFlight == Cardinality(InFlight) <= limit

C1_Witness ==
    /\ limit = 2 /\ Cardinality(InFlight) = 2
    /\ \E t \in Tasks : task[t] = "waiting"
    /\ \E t \in InFlight : susp[t] > 0

(***************************************************************************)
(* C4: an error a handler raises is caught in its own task and logged with *)
(* its path; no other invocation is kept from running (every matching file *)
(* has had its handler called once the walk is over), and the walk returns *)
(* normally.                                                               *)
(***************************************************************************)
C4_HandlerErrorIsolated ==
    /\ \A t \in raised : tres[t] = "ok" /\ (\E i \in 1..Len(wlog) : wlog[i] = t)
    /\ Len(wlog) = Cardinality(raised)
    /\ wres # "exc"
    /\ wpc = "returned" =>
          /\ wres = "ok"
          /\ \A t \in Tasks : Matches(tree[t]) => invoked[t] = 1 /\ tres[t] = "ok"

C4_Witness ==
    /\ wpc = "returned" /\ wres = "ok" /\ limit = 2
    /\ Cardinality(Dispatched) = 3 /\ Cardinality(raised) = 1 /\ Len(wlog) = 1
    /\ \A t \in Dispatched : invoked[t] = 1

(***************************************************************************)
(* C5: when walk_through_files returns, every handler invocation it        *)
(* dispatched has settled: no task is still queued, waiting or running.    *)
(***************************************************************************)
C5_ReturnedMeansAllSettled ==
    wpc = "returned" =>
        /\ scanned = Len(tree)
        /\ \A t \in Tasks : Matches(tree[t]) => task[t] = "done" /\ tres[t] # "none"
        /\ waiters = <<>>

C5_Witness ==
    /\ wpc = "returned" /\ Cardinality(Dispatched) = 3 /\ limit = 1
    /\ \A t \in Dispatched : task[t] = "done"

(***************************************************************************)
(* What the claims about the updater speak of.                             *)
(***************************************************************************)
Done == upc = "done"

ValidationErrors == {"no_opening", "no_closing", "yaml", "not_mapping"}

WriteFailed == \E i \in 1..Len(writes) : writes[i].what = "new" /\ writes[i].status = "failed"

RollbackFailed == \E i \in 1..Len(writes) : writes[i].what = "orig" /\ writes[i].status = "failed"

RollbackCalls == {i \in 1..Len(writes) : writes[i].what = "orig"}

\* the document as constructed: the object its block holds, and its parts as text
BlockObject == safe_load(Lines(doc.block, <<LF>>))

DocPrefix == (IF doc.bom THEN <<BOM>> ELSE <<>>) \o MARKER \o <<LF>>

DocFromClosing == ReadText(MARKER \o doc.tail)

\* the characters on disk after the line of the closing marker, as constructed
DocBody == From(doc.tail, Min(Len(doc.nl), Len(doc.tail)))

NonMappingBlock ==
    \/ BlockObject.kind = "list"
    \/ BlockObject.kind = "scalar" /\ \E i \in 1..Len(doc.block) : LineKind(doc.block[i]) # "blank"

RequestMatchesMetadata ==
    /\ BlockObject.kind = "dict"
    /\ \A i \in 1..Len(params) : \E j \in 1..Len(BlockObject.items) : BlockObject.items[j] = params[i]

(***************************************************************************)
(* C2: when update_frontmatter_async fails while locating the markers,     *)
(* parsing the block or validating that it is a mapping, it has attempted  *)
(* no write and the file is as it was before the call; and a document that *)
(* lacks the opening or the closing marker always fails that way.          *)
(***************************************************************************)
C2_ValidationFailureWritesNothing ==
    Done =>
        /\ result \in ValidationErrors => writes = <<>> /\ disk = disk0
        /\ doc.shape # "ok" /\ result # "OSError" => result = doc.shape

C2_Witness == Done /\ result = "no_closing" /\ doc.block # <<>> /\ disk = disk0

(***************************************************************************)
(* C3 (the claim as stated, for a request that names a key): on a          *)
(* well-formed document whose metadata already holds every key of the      *)
(* request with the same value, the call performs no write and returns     *)
(* success.                                                                *)
(***************************************************************************)
C3_NoopRequestWritesNothing ==
    doc.shape = "ok" /\ RequestMatchesMetadata /\ params # <<>> /\ result # "OSError"
        => writes = <<>> /\ (Done => result = "ok")

(***************************************************************************)
(* C6 (the claim as stated, for a block that holds a mapping and no blank  *)
(* line): after a successful update the text of the file is the original   *)
(* prefix through the opening marker line, then the newly serialized       *)
(* block, then the original text from the closing marker line on, with     *)
(* nothing between the block and the closing marker.                       *)
(***************************************************************************)
C6_RewrittenDocumentShape ==
    Done /\ result = "ok" /\ writes # <<>> /\ BlockObject.kind = "dict"
         /\ (\A i \in 1..Len(doc.block) : doc.block[i] # <<>>)
        => ReadText(disk) =
              DocPrefix \o safe_dump(DictUpdate(MetaOf(BlockObject).items, params))
                        \o DocFromClosing

(***************************************************************************)
(* C7 (the claim as stated): a block that deserializes to a value that is  *)
(* not a mapping (a list, a scalar, an explicit null; the empty and falsy  *)
(* ones included) makes the call raise before any write, the file          *)
(* unchanged.                                                              *)
(***************************************************************************)
C7_NonMappingRejected ==
    doc.shape = "ok" /\ NonMappingBlock /\ result # "OSError"
        => writes = <<>> /\ disk = disk0 /\ (Done => result = "not_mapping")

(***************************************************************************)
(* C8 (the claim as stated, for a call that has ended): whatever writes    *)
(* and rollbacks failed, the text of the file is the complete original     *)
(* text or the complete new text.                                          *)
(***************************************************************************)
C8_NeverPartial == Done => ReadText(disk) \in {ReadText(disk0), final_text}

(***************************************************************************)
(* C8 (amended): before the first write the file is untouched; once the    *)
(* call has ended, unless both the write and the rollback failed, the text *)
(* of the file is the complete new text (the write succeeded) or the       *)
(* complete original text (no write, or the rollback succeeded).           *)
(***************************************************************************)
C8_OriginalOrNewUnlessRollbackFailed ==
    /\ writes = <<>> => disk = disk0
    /\ Done /\ ~(WriteFailed /\ RollbackFailed) =>
          ReadText(disk) = IF writes # <<>> /\ ~WriteFailed THEN final_text ELSE ReadText(disk0)

C8_Witness ==
    /\ Done /\ WriteFailed /\ ~RollbackFailed
    /\ writes[1].status = "failed" /\ Len(writes) = 2 /\ writes[2].status = "ok"
    /\ doc.bom /\ ReadText(disk) = ReadText(disk0) /\ final_text # ReadText(disk0)

(***************************************************************************)
(* C9: when the write of the new text fails, the call makes exactly one    *)
(* rollback write of the original text and then raises the write error,    *)
(* whether the rollback succeeded or not; it never returns success.        *)
(***************************************************************************)
C9_WriteFailureRollsBackOnceAndRaises ==
    /\ Cardinality(RollbackCalls) <= 1
    /\ RollbackCalls # {} => WriteFailed
    /\ Done /\ WriteFailed =>
          /\ Len(writes) = 2 /\ writes[1].what = "new" /\ writes[2].what = "orig"
          /\ result = "write_failed"
          /\ writes[2].status = "ok" => disk = WriteText(original, os_linesep)
    /\ Done /\ result = "ok" => ~WriteFailed

C9_Witness == Done /\ WriteFailed /\ writes[2].status = "ok" /\ result = "write_failed"

(***************************************************************************)
(* C10 (the claim as stated): after a successful update the characters of  *)
(* the file before the opening marker (the BOM, if any) and after the line *)
(* of the closing marker are those of the file before the update.          *)
(***************************************************************************)
C10_OutsideBlockUntouched ==
    Done /\ result = "ok" /\ writes # <<>>
        => /\ StartsWith(disk, <<BOM>>) <=> doc.bom
           /\ EndsWith(disk, DocBody)

(***************************************************************************)
(* C11: the updater writes only if the validated, merged and reassembled   *)
(* text, with its BOM put back, differs from the text that was read; when  *)
(* the two are equal the call returns normally and the file is untouched.  *)
(***************************************************************************)
C11_WritesOnlyWhenTextDiffers ==
    /\ writes # <<>> => final_text # original /\ update_plan(original, params).err = "none"
    /\ (upc # "start" /\ result # "OSError" /\ update_plan(original, params).err = "none"
          /\ update_plan(original, params).final = original)
       => /\ upc = "done" /\ result = "ok"
          /\ writes = <<>> /\ disk = disk0

\* a document with a BOM that the request leaves exactly as it is
C11_Witness ==
    /\ upc = "done" /\ result = "ok" /\ writes = <<>>
    /\ doc.bom /\ params # <<>> /\ final_text = original /\ original # <<>>

(***************************************************************************)
(* C12 (the claim as stated): a file whose lines end in CRLF still ends    *)
(* every line in CRLF after a successful update, in the rewritten block    *)
(* and in the suffix the update did not touch.                             *)
(***************************************************************************)
C12_CrlfKeptOnDisk ==
    Done /\ result = "ok" /\ writes # <<>> /\ doc.nl = <<CR, LF>>
        => \A i \in 1..Len(disk) : disk[i] = LF => i > 1 /\ disk[i - 1] = CR

(***************************************************************************)
(* C13: the merge keeps every key the block already had at its place, with *)
(* the value of the request where the request names it, and puts the keys  *)
(* only the request has after them, in the order of the request; the block *)
(* is serialized in that order.                                            *)
(***************************************************************************)
C13_MergeKeepsKeyOrder ==
    (upc # "start" /\ result \notin ValidationErrors \cup {"OSError"} /\ BlockObject.kind = "dict")
        => LET old == BlockObject.items
               Named(k) == \E j \in 1..Len(params) : params[j].k = k
               Kept == [i \in 1..Len(old) |->
                          IF Named(old[i].k)
                          THEN params[CHOOSE j \in 1..Len(params) : params[j].k = old[i].k]
                          ELSE old[i]]
               Added == SelectSeq(params, LAMBDA e : \A i \in 1..Len(old) : old[i].k # e.k)
           IN  StartsWith(final_text, DocPrefix \o safe_dump(Kept \o Added))

\* {a: 1, b: 2} merged with {b: 0, c: 1} is written as a: 1, b: 0, c: 1
C13_Witness ==
    /\ Done /\ result = "ok" /\ writes # <<>>
    /\ doc.block = <<Txt4("a", ":", " ", "1"), Txt4("b", ":", " ", "2")>>
    /\ params = <<Entry("b", "0"), Entry("c", "1")>>
    /\ StartsWith(disk, DocPrefix \o Txt4("a", ":", " ", "1") \o <<LF>>
                                  \o Txt4("b", ":", " ", "0") \o <<LF>>
                                  \o Txt4("c", ":", " ", "1") \o <<LF>>)

(***************************************************************************)
(* C15: after a successful update a document that began with a BOM begins  *)
(* with exactly one BOM, the opening marker line right after it; a         *)
(* document that had no BOM has none.                                      *)
(***************************************************************************)
C15_BomKeptOnce ==
    Done /\ result = "ok"
        => LET boms == {i \in 1..Len(disk) : disk[i] = BOM}
           IN  IF doc.bom
               THEN /\ boms = {1}
                    /\ StartsWith(From(disk, 1), MARKER)
                    /\ Len(disk) > 4 /\ disk[5] \in {LF, CR}
               ELSE boms = {}

\* a document with a BOM was rewritten
C15_Witness ==
    /\ Done /\ result = "ok" /\ doc.bom
    /\ \E i \in 1..Len(writes) : writes[i] = [what |-> "new", status |-> "ok"]
    /\ disk # disk0 /\ disk[1] = BOM

(***************************************************************************)
(* C14: the handler is called exactly once for every file whose name ends  *)
(* in ".md" and never for another file; a matching file found while every  *)
(* slot is taken waits for a slot, is not dropped, and has had its call    *)
(* once the walk is over.                                                  *)
(***************************************************************************)
C14_OncePerMatchingFile ==
    LET n(t) == Len(tree[t])
        IsMd(t) == n(t) >= 3 /\ tree[t][n(t) - 2] = "." /\ tree[t][n(t) - 1] = "m"
                             /\ tree[t][n(t)] = "d"
    IN  \A t \in Tasks :
          /\ invoked[t] <= 1
          /\ ~IsMd(t) => invoked[t] = 0 /\ task[t] = "none"
          /\ (IsMd(t) /\ t <= scanned) => task[t] # "none"
          /\ task[t] = "waiting" => invoked[t] = 0 /\ \E i \in 1..Len(waiters) : waiters[i] = t
          /\ task[t] \in {"running", "done"} => invoked[t] = 1
          /\ (wpc = "returned" /\ IsMd(t)) => invoked[t] = 1

\* a file that found the only slot taken has waited and is handed the slot the
\* first file's call gave back; the non-matching file has no task
C14_Witness ==
    /\ wpc = "gather" /\ limit = 1
    /\ \E t \in Tasks : task[t] = "done" /\ invoked[t] = 1
    /\ \E t \in Tasks : task[t] = "woken" /\ invoked[t] = 0
    /\ \E t \in Tasks : tree[t] = <<"a">> \o MD \o <<"x">> /\ task[t] = "none"

(***************************************************************************)
(* C17: when every handler call eventually returns or raises, the walk     *)
(* eventually completes, with every slot given back (after a return and    *)
(* after an error alike) and no task left waiting at the semaphore.        *)
(***************************************************************************)
C17_WalkCompletes == <>(wpc = "returned" /\ sem = limit /\ waiters = <<>>)

\* a task that waited is handed the slot of a call that raised
C17_Witness ==
    /\ wpc = "gather"
    /\ \E t \in Tasks : task[t] = "woken"
    /\ \E t \in raised : task[t] = "done" /\ \A u \in Tasks \ {t} : task[u] # "done"

(***************************************************************************)
(* C16: _find_frontmatter_bounds succeeds exactly when the text starts     *)
(* with '---' and the detected newline and some later line is exactly      *)
(* '---'; the block it returns starts after the opening line and stops at  *)
(* the first such later line; when the opening or the closing marker is    *)
(* missing it raises the matching error and gives no offsets.              *)
(***************************************************************************)
C16_BoundsOfFirstClosingLine ==
    located.err # "pending"
        => LET text == original
               n == Len(text)
               nl == IF \E i \in 1..(n - 1) : text[i] = CR /\ text[i + 1] = LF
                     THEN <<CR, LF>> ELSE <<LF>>
               first == Len(MARKER) + Len(nl)
               opens == n >= first /\ SubSeq(text, 1, first) = MARKER \o nl
               \* the offsets after the opening line where a line that is exactly '---' begins
               MarkerLineAt(p) ==
                   /\ p + 3 <= n
                   /\ SubSeq(text, p + 1, p + 3) = MARKER
                   /\ SubSeq(text, p - Len(nl) + 1, p) = nl
                   /\ p + 3 = n \/ (p + 3 + Len(nl) <= n /\ SubSeq(text, p + 4, p + 3 + Len(nl)) = nl)
               closers == {p \in first..n : MarkerLineAt(p)}
               closing == CHOOSE p \in closers : \A q \in closers : p <= q
           IN  /\ located.err = "none" <=> (opens /\ closers # {})
               /\ located.err = "no_opening" <=> ~opens
               /\ located.err = "no_closing" <=> (opens /\ closers = {})
               /\ located.err = "none"
                    => /\ located.nl = nl
                       /\ located.start = first
                       /\ located.end = IF closing = first THEN first ELSE closing - Len(nl)
               /\ located.err # "none" => located.start = 0 /\ located.end = 0

\* a CRLF text with a second '---' line in its body: the block stops at the first
C16_Witness ==
    /\ located.err = "none" /\ located.nl = <<CR, LF>>
    /\ located.end > located.start
    /\ Len(Split(original, MARKER)) > 3

(***************************************************************************)
(* C18 (the claim as stated): when update_frontmatter_async has returned   *)
(* normally, a call with the same request on the file it left attempts no  *)
(* write.                                                                  *)
(***************************************************************************)
C18_SecondCallWritesNothing == calls = 2 => writes = <<>> /\ disk = disk0

(***************************************************************************)
(* C19: in the periodic loop no two calls of update_frontmatter_async on   *)
(* the same path are in flight at the same time: a walk calls the handler  *)
(* at most once per path, and every call of a walk has settled before the  *)
(* next walk starts.                                                       *)
(***************************************************************************)
C19_OneUpdatePerPathInFlight ==
    /\ \A t \in Tasks :
          /\ invoked[t] <= 1
          /\ ~(t \in stale /\ t \in Updating)
    /\ stale = {}
    /\ wpc = "walk" => Updating = {} /\ InFlight = {}

\* the second walk: two paths are being updated at once, each by its one handler
C19_Witness ==
    /\ pass = 2 /\ wpc = "gather"
    /\ Cardinality(Updating) = 2
    /\ \E t \in Tasks : task[t] = "waiting"

(***************************************************************************)
(* C20 (the claim as stated): a handler that reads the item file of its    *)
(* directory while another handler is rewriting that file reads the whole  *)
(* original text or the whole new text, and so takes the directory for an  *)
(* item container whenever the file says it is one.                        *)
(***************************************************************************)
C20_ReaderSeesWholeFile ==
    rpc = "done"
        => /\ seen = ReadText(disk0) \/ (writes # <<>> /\ seen = final_text)
           /\ is_file_in_item_container(ReadText(disk0)) = "yes"
                => is_file_in_item_container(seen) = "yes"

=============================================================================
